---- MODULE Spec2Model ----
(***************************************************************************)
(* Quin-QuantAI: the chat front end (ChatInterface: handleSubmit,          *)
(* renderAssistantMessage, handleBackToHome) and the SQL passthrough back  *)
(* end (executeQuery, POST /execute), as state machines.                   *)
(*                                                                         *)
(* JavaScript strings are TLA+ strings; substring, trim and lower-casing   *)
(* are computed character by character.  An optional value (a field that   *)
(* may be undefined) is a tuple: <<>> is undefined, <<v>> is the value v.  *)
(***************************************************************************)
EXTENDS Integers, Sequences, FiniteSets, TLC

\* ------------------------------------------------------------- bounds ----
\* Submissions accepted in one run of the chat machine.
MaxSubmits == 7
\* Concurrent POST /execute requests and size of the connection pool.
MaxRequests == 3
PoolSize == 2
\* Calls of uploadDataset in one run of the upload machine.
MaxUploads == 3
\* Lines of a text handed to processMessageContent.
MaxLines == 3
\* Calls of recognition.start() in one run of the voice input.
MaxStarts == 3
\* Table selections in one run of DatabaseConnection.
MaxSelects == 3

\* ------------------------------------------------- program constants ----
\* messages.slice(-10)
HistoryWindow == 10

\* ---------------------------------------------------- string helpers ----
Undefined == <<>>
Some(v) == <<v>>

\* JavaScript truthiness of an optional string: defined and not "".
Truthy(o) == o # <<>> /\ o[1] # ""

\* a || b on optional strings.
OrElse(a, b) == IF Truthy(a) THEN a ELSE b

IsSpace(c) == c \in {" ", "\t", "\n"}

RECURSIVE TrimStart(_)
TrimStart(s) ==
  IF Len(s) > 0 /\ IsSpace(SubSeq(s, 1, 1))
  THEN TrimStart(SubSeq(s, 2, Len(s)))
  ELSE s

RECURSIVE TrimEnd(_)
TrimEnd(s) ==
  IF Len(s) > 0 /\ IsSpace(SubSeq(s, Len(s), Len(s)))
  THEN TrimEnd(SubSeq(s, 1, Len(s) - 1))
  ELSE s

\* String.prototype.trim
Trim(s) == TrimEnd(TrimStart(s))

\* String.prototype.includes
Includes(s, sub) ==
  \E i \in 1..(Len(s) - Len(sub) + 1) : SubSeq(s, i, i + Len(sub) - 1) = sub

UpperChars ==
  <<"A","B","C","D","E","F","G","H","I","J","K","L","M",
    "N","O","P","Q","R","S","T","U","V","W","X","Y","Z">>
LowerChars ==
  <<"a","b","c","d","e","f","g","h","i","j","k","l","m",
    "n","o","p","q","r","s","t","u","v","w","x","y","z">>

LowerChar(c) ==
  IF \E i \in DOMAIN UpperChars : UpperChars[i] = c
  THEN LowerChars[CHOOSE i \in DOMAIN UpperChars : UpperChars[i] = c]
  ELSE c

\* String.prototype.toLowerCase
RECURSIVE ToLowerCase(_)
ToLowerCase(s) ==
  IF Len(s) = 0 THEN ""
  ELSE LowerChar(SubSeq(s, 1, 1)) \o ToLowerCase(SubSeq(s, 2, Len(s)))

\* ------------------------------------------------------ chat: values ----
\* The fixed text of the catch branch of handleSubmit.
ErrorText == "Sorry, I encountered an error. Please try again."

\* Texts the user can have in the input field.
Inputs == {"", " \t", " q\n"}

SampleRows == << [region |-> "north", total |-> 3], [region |-> "south", total |-> 5] >>

\* ChatResponse bodies the /chat collaborator answers with (2xx, an object).
DataResponse ==
  [ query |-> Some("SELECT * FROM t"), explanation |-> Some("e1"),
    summary |-> Some("s1"), data |-> Some(SampleRows),
    sql |-> Some("SELECT * FROM t"), type |-> Undefined ]

GreetingResponse ==
  [ query |-> Some("SELECT 'greeting'"), explanation |-> Some("hello"),
    summary |-> Undefined, data |-> Undefined,
    sql |-> Undefined, type |-> Some("greeting") ]

\* What property access on a 2xx body that is not a ChatResponse object
\* gives (a text body, or an object without the fields): all undefined.
FieldlessResponse ==
  [ query |-> Undefined, explanation |-> Undefined,
    summary |-> Undefined, data |-> Undefined,
    sql |-> Undefined, type |-> Undefined ]

\* Outcomes of api.post('/chat'): a 2xx answer with a body, or a rejection.
\*   ok       2xx, body a ChatResponse
\*   textbody 2xx, body not JSON (axios hands over the raw text) or an
\*            object without the ChatResponse fields
\*   nullbody 2xx, body the JSON value null
\*   network  no answer
\*   status   a non-2xx status
OkReplies ==
  { [kind |-> "ok", body |-> b] : b \in {DataResponse, GreetingResponse} }
MalformedReplies ==
  { [kind |-> "textbody", body |-> FieldlessResponse],
    [kind |-> "nullbody", body |-> FieldlessResponse] }
RejectedReplies ==
  { [kind |-> k, body |-> FieldlessResponse] : k \in {"network", "status"} }
FailedReplies == MalformedReplies \cup RejectedReplies
Replies == OkReplies \cup FailedReplies

\* sendMessage: resolves with response.data, rethrows what api.post throws.
sendMessage(reply) ==
  IF reply.kind \in {"network", "status"}
  THEN [threw |-> TRUE, data |-> Undefined]
  ELSE IF reply.kind = "nullbody"
  THEN [threw |-> FALSE, data |-> Undefined]
  ELSE [threw |-> FALSE, data |-> Some(reply.body)]

\* ------------------------------------------------------- chat: state ----
VARIABLES
  messages,   \* the turn log (useState<Message[]>)
  input,      \* the text of the input field
  isLoading,  \* the loading flag of ChatInterface
  inflight,   \* the handleSubmit calls suspended at an await
  subs,       \* number of submissions accepted so far
  appended,   \* per submission: how many user / assistant turns it appended
  attempted   \* the last event was a call of handleSubmit

chatVars == <<messages, input, isLoading, inflight, subs, appended, attempted>>

UserTurn(text, s) ==
  [ role |-> "user", content |-> text, explanation |-> Undefined,
    summary |-> Undefined, query |-> Undefined, data |-> Undefined,
    type |-> Undefined, sub |-> s ]

AssistantTurn(response, s) ==
  [ role |-> "assistant", content |-> "", explanation |-> response.explanation,
    summary |-> response.summary, query |-> response.query,
    data |-> response.data, type |-> response.type, sub |-> s ]

ErrorTurn(s) ==
  [ role |-> "assistant", content |-> ErrorText, explanation |-> Undefined,
    summary |-> Undefined, query |-> Undefined, data |-> Undefined,
    type |-> Undefined, sub |-> s ]

\* slice(0, n) in place of slice(-n): the first n turns.
SliceFirst(seq, n) ==
  IF Len(seq) <= n THEN seq ELSE SubSeq(seq, 1, n)

\* Array.prototype.slice(-n)
SliceLast(seq, n) ==
  IF Len(seq) <= n THEN seq ELSE SubSeq(seq, Len(seq) - n + 1, Len(seq))

HistoryEntry(m) ==
  [ user |-> IF m.role = "user" THEN Some(m.content) ELSE Undefined,
    assistant |-> IF m.role = "assistant"
                  THEN OrElse(m.summary, OrElse(m.explanation, Some(m.content)))
                  ELSE Undefined ]

HistoryKept(h) == Truthy(h.user) \/ Truthy(h.assistant)

\* messages.slice(-10).map(...).filter(h => h.user || h.assistant)
BuildHistory(log) ==
  LET window == SliceLast(log, HistoryWindow)
      mapped == [i \in DOMAIN window |-> HistoryEntry(window[i])]
  IN  SelectSeq(mapped, HistoryKept)

\* An onQueryExecute whose promise rejects.
onQueryExecuteRejects(sql) == "rejected"

\* The onQueryExecute prop App passes to ChatInterface: async () => {}.
onQueryExecute(sql) == "resolved"

ChatInit ==
  /\ messages = <<>>
  /\ input = ""
  /\ isLoading = FALSE
  /\ inflight = {}
  /\ subs = 0
  /\ appended = [s \in 1..MaxSubmits |-> [user |-> 0, assistant |-> 0]]
  /\ attempted = FALSE

NoteAppend(s, who) ==
  appended' = [appended EXCEPT ![s][who] = @ + 1]

ControlsDisabledNever == FALSE

\* disabled={isLoading} on the text field and the mic button, and the
\* loading part of the send button's disabled={!input.trim() || isLoading}.
ControlsDisabled == isLoading

\* onChange of the text field (disabled while loading).
TypeInput(text) ==
  /\ ~ControlsDisabled
  /\ input # text
  /\ input' = text
  /\ attempted' = FALSE
  /\ UNCHANGED <<messages, isLoading, inflight, subs, appended>>

\* The guard without the trim: if (!input) return;
SubmitRejectedUntrimmed(text) == text = ""

\* The guard of handleSubmit: if (!input.trim()) return;
SubmitRejected(text) == Trim(text) = ""

\* handleSubmit up to its first await; the form's controls are disabled
\* while the loading flag is set.
Submit ==
  /\ ~ControlsDisabled
  /\ subs < MaxSubmits
  /\ attempted' = TRUE
  /\ IF SubmitRejected(input)
     THEN UNCHANGED <<messages, input, isLoading, inflight, subs, appended>>
     ELSE LET s == subs + 1
              userMessage == UserTurn(Trim(input), s)
          IN  /\ input' = ""
              /\ messages' = Append(messages, userMessage)
              /\ isLoading' = TRUE
              /\ subs' = s
              /\ NoteAppend(s, "user")
              /\ inflight' = inflight \cup
                   { [ sub |-> s, at |-> "send",
                       message |-> userMessage.content,
                       history |-> BuildHistory(messages),
                       sql |-> Undefined ] }

CatchAndFinallyReplacesLast(f) ==
  /\ messages' = Append(SliceFirst(messages, Len(messages) - 1), ErrorTurn(f.sub))
  /\ NoteAppend(f.sub, "assistant")
  /\ isLoading' = FALSE
  /\ inflight' = inflight \ {f}
  /\ attempted' = FALSE
  /\ UNCHANGED <<input, subs>>

\* catch { setMessages(prev => [...prev, errorMessage]) } finally { ... }
CatchAndFinally(f) ==
  /\ messages' = Append(messages, ErrorTurn(f.sub))
  /\ NoteAppend(f.sub, "assistant")
  /\ isLoading' = FALSE
  /\ inflight' = inflight \ {f}
  /\ attempted' = FALSE
  /\ UNCHANGED <<input, subs>>

\* The continuation of handleSubmit after await sendMessage(...).
Resolve(f, reply) ==
  /\ f \in inflight
  /\ f.at = "send"
  /\ LET r == sendMessage(reply)
     IN  IF r.threw \/ r.data = Undefined
         THEN CatchAndFinally(f)
         ELSE LET response == r.data[1]
              IN  /\ messages' = Append(messages, AssistantTurn(response, f.sub))
                  /\ NoteAppend(f.sub, "assistant")
                  /\ IF Truthy(response.sql)
                     THEN /\ inflight' = (inflight \ {f}) \cup
                               {[f EXCEPT !.at = "query", !.sql = response.sql]}
                          /\ UNCHANGED isLoading
                     ELSE /\ inflight' = inflight \ {f}
                          /\ isLoading' = FALSE
                  /\ attempted' = FALSE
                  /\ UNCHANGED <<input, subs>>

\* The continuation of handleSubmit after await onQueryExecute(response.sql).
QueryDone(f) ==
  /\ f \in inflight
  /\ f.at = "query"
  /\ IF onQueryExecute(f.sql[1]) = "resolved"
     THEN /\ isLoading' = FALSE
          /\ inflight' = inflight \ {f}
          /\ attempted' = FALSE
          /\ UNCHANGED <<messages, input, subs, appended>>
     ELSE CatchAndFinally(f)

handleBackToHomeCancels ==
  /\ Len(messages) > 0
  /\ messages' = <<>>
  /\ input' = ""
  /\ attempted' = FALSE
  /\ inflight' = {}
  /\ isLoading' = FALSE
  /\ UNCHANGED <<subs, appended>>

\* handleBackToHome; its button is rendered when the log is not empty.
handleBackToHome ==
  /\ Len(messages) > 0
  /\ messages' = <<>>
  /\ input' = ""
  /\ attempted' = FALSE
  /\ UNCHANGED <<isLoading, inflight, subs, appended>>

\* ---------------------------------------------------- chat: rendering ----
\* if (!data.length) return <p>No data found.</p>; else the table.
renderDataTable(rows) ==
  IF Len(rows) = 0
  THEN [notice |-> Some("No data found."), rows |-> <<>>]
  ELSE [notice |-> Undefined, rows |-> rows]

\* The narrative tags with 'error' left out.
nonDataTypesWithoutError ==
  { "knowledge_base", "greeting", "help", "ai_info", "operation",
    "general_knowledge", "out_of_scope" }

\* The tags of the narrative path.
nonDataTypes ==
  { "knowledge_base", "greeting", "help", "ai_info", "operation",
    "general_knowledge", "out_of_scope", "error" }

\* The condition with the routing literals matched on the query as written
\* (no lower-casing).
ShowSqlBlockCaseSensitive(query) ==
  /\ Truthy(query)
  /\ Includes(ToLowerCase(query[1]), "select")
  /\ ~Includes(query[1], "'greeting'")
  /\ ~Includes(query[1], "'ai_info'")
  /\ ~Includes(query[1], "'help'")
  /\ ~Includes(query[1], "'out_of_scope'")

\* The condition in front of the SQL block.
ShowSqlBlock(query) ==
  /\ Truthy(query)
  /\ Includes(ToLowerCase(query[1]), "select")
  /\ ~Includes(ToLowerCase(query[1]), "'greeting'")
  /\ ~Includes(ToLowerCase(query[1]), "'ai_info'")
  /\ ~Includes(ToLowerCase(query[1]), "'help'")
  /\ ~Includes(ToLowerCase(query[1]), "'out_of_scope'")

\* {x && <div>...</div>}: the text when it is truthy, nothing otherwise.
WhenTruthy(o) == IF Truthy(o) THEN o ELSE Undefined

NoDatasetDefault ==
  "Please upload a dataset first, and then I'll be happy to help you analyze it!"

\* What renderAssistantMessage puts on the screen for one turn.
renderAssistantMessage(message) ==
  IF message.type = Some("dataset_summary")
  THEN [ path |-> "dataset_summary", heading |-> Some("Dataset Summary"),
         summaryLine |-> WhenTruthy(message.summary),
         text |-> WhenTruthy(message.explanation),
         uploadButton |-> FALSE, sqlBlock |-> Undefined, table |-> Undefined ]
  ELSE IF message.type = Some("no_dataset")
  THEN [ path |-> "no_dataset", heading |-> Some("No Dataset Available"),
         summaryLine |-> Undefined,
         text |-> OrElse(message.explanation, Some(NoDatasetDefault)),
         uploadButton |-> TRUE, sqlBlock |-> Undefined, table |-> Undefined ]
  ELSE IF Truthy(message.type) /\ message.type[1] \in nonDataTypes
  THEN [ path |-> "narrative", heading |-> Undefined,
         summaryLine |-> Undefined,
         text |-> WhenTruthy(message.explanation),
         uploadButton |-> FALSE, sqlBlock |-> Undefined, table |-> Undefined ]
  ELSE LET mainText == OrElse(message.summary, message.explanation)
       IN  [ path |-> "data", heading |-> Undefined,
             summaryLine |-> Undefined,
             text |-> WhenTruthy(mainText),
             uploadButton |-> FALSE,
             sqlBlock |-> IF ShowSqlBlock(message.query)
                          THEN message.query ELSE Undefined,
             table |-> IF message.data # Undefined /\ Len(message.data[1]) > 0
                       THEN Some(renderDataTable(message.data[1]))
                       ELSE Undefined ]

\* The strings a rendered turn shows.
ShownTexts(out) ==
  { o[1] : o \in { p \in {out.heading, out.summaryLine, out.text, out.sqlBlock} :
                   p # Undefined } }
  \cup (IF out.table # Undefined /\ out.table[1].notice # Undefined
        THEN {out.table[1].notice[1]} ELSE {})

\* Turns offered to renderAssistantMessage on its own.
RenderTypes ==
  { Undefined, Some(""), Some("data"), Some("GREETING"),
    Some("dataset_summary"), Some("no_dataset"), Some("knowledge_base"),
    Some("greeting"), Some("help"), Some("ai_info"), Some("operation"),
    Some("general_knowledge"), Some("out_of_scope"), Some("error") }

RenderQueries ==
  { Undefined, Some(""), Some("select 1"), Some("SELECT * FROM t"),
    Some("SeLeCt a FROM t"), Some("update t set a = 1"),
    Some("SELECT 'greeting'"), Some("select 'GREETING' from t"),
    Some("'greeting'"), Some("select greeting from t"),
    Some("SELECT 'ai_info'"), Some("select 'Help'"),
    Some("SELECT 'out_of_scope' FROM t"), Some("select 'out of scope'") }

RenderData == { Undefined, Some(<<>>), Some(SampleRows) }

RenderTexts == { Undefined, Some(""), Some("text") }

RenderInputs ==
  { [ role |-> "assistant", content |-> "", explanation |-> e, summary |-> s,
      query |-> q, data |-> d, type |-> t, sub |-> 0 ] :
    e \in RenderTexts, s \in {Undefined, Some("sum")},
    q \in RenderQueries, d \in RenderData, t \in RenderTypes }

NotRendered == [ path |-> "none" ]

VARIABLES
  shown,      \* the turn handed to renderAssistantMessage
  rendered    \* what it rendered, NotRendered before the call

renderVars == <<shown, rendered>>

RenderIdle ==
  /\ shown = CHOOSE m \in RenderInputs : TRUE
  /\ rendered = NotRendered

RenderInit ==
  /\ shown \in RenderInputs
  /\ rendered = NotRendered

RenderTurn ==
  /\ rendered = NotRendered
  /\ rendered' = renderAssistantMessage(shown)
  /\ UNCHANGED shown

\* ------------------------------------------------ backend: /execute ----
\* The bodies a client posts: sql missing, empty, or a statement.
PostBodies ==
  { [sql |-> Undefined], [sql |-> Some("")],
    [sql |-> Some("SELECT * FROM t")], [sql |-> Some("UPDATE t SET a = 1")] }

\* What connection.execute gives: the rows and fields of a row set, the
\* result header of a statement that returns no rows (fields undefined),
\* or a thrown error.
ExecuteOutcomes ==
  { [ kind |-> "rows", rows |-> <<>>,
      fields |-> Some(<<[name |-> "a"]>>) ],
    [ kind |-> "rows", rows |-> <<[a |-> 1], [a |-> 2]>>,
      fields |-> Some(<<[name |-> "a"]>>) ],
    [ kind |-> "header", rows |-> <<>>, fields |-> Undefined ],
    [ kind |-> "error", rows |-> <<>>, fields |-> Undefined ] }

ElapsedTimes == {0, 7}

Connections == 1..PoolSize
RequestIds == 1..MaxRequests

NoResponse == [status |-> 0]

VARIABLES
  req,          \* per request: where its handler is, its body, its response
  checkedOut,   \* the pooled connections currently checked out
  acquired,     \* per request: connections obtained from the pool
  released,     \* per request: calls of connection.release()
  executed      \* per request: what connection.execute gave, if called

execVars == <<req, checkedOut, acquired, released, executed>>

ExecInit ==
  /\ req = [r \in RequestIds |->
              [pc |-> "none", body |-> [sql |-> Undefined],
               conn |-> 0, response |-> NoResponse]]
  /\ checkedOut = {}
  /\ acquired = [r \in RequestIds |-> 0]
  /\ released = [r \in RequestIds |-> 0]
  /\ executed = [r \in RequestIds |-> "none"]

\* if (sql === '')
SqlMissingOnlyWhenEmpty(body) == body.sql = Some("")

\* if (!sql)
SqlMissing(body) == ~Truthy(body.sql)

Respond(r, response) ==
  req' = [req EXCEPT ![r].pc = "done", ![r].conn = 0, ![r].response = response]

GenericFailure == [status |-> 500, body |-> [error |-> "Failed to execute query"]]

\* router.post('/execute') up to the await inside executeQuery.
Post(r, body) ==
  /\ req[r].pc = "none"
  /\ IF SqlMissing(body)
     THEN req' = [req EXCEPT ![r].pc = "done", ![r].body = body,
                    ![r].response = [status |-> 400,
                                     body |-> [error |-> "SQL query is required"]]]
     ELSE req' = [req EXCEPT ![r].pc = "getConnection", ![r].body = body]
  /\ UNCHANGED <<checkedOut, acquired, released, executed>>

\* await pool.getConnection() resolves; connection.execute(sql) is called.
GetConnection(r, c) ==
  /\ req[r].pc = "getConnection"
  /\ c \in Connections \ checkedOut
  /\ checkedOut' = checkedOut \cup {c}
  /\ acquired' = [acquired EXCEPT ![r] = @ + 1]
  /\ req' = [req EXCEPT ![r].pc = "execute", ![r].conn = c]
  /\ UNCHANGED <<released, executed>>

\* await pool.getConnection() rejects: executeQuery throws before its try.
GetConnectionFails(r) ==
  /\ req[r].pc = "getConnection"
  /\ Respond(r, GenericFailure)
  /\ executed' = [executed EXCEPT ![r] = "noconnection"]
  /\ UNCHANGED <<checkedOut, acquired, released>>

\* release() at the end of the try block instead of in finally.
ReleaseOnSuccessOnly(outcome) == outcome.kind # "error"

\* finally { connection.release(); }
ReleaseAfter(outcome) == TRUE

\* The route's formatting of a result, or the TypeError of
\* result.fields.map when fields is undefined.
FormatResult(sql, outcome, elapsed) ==
  IF outcome.fields = Undefined
  THEN GenericFailure
  ELSE [ status |-> 200,
         body |-> [ sql |-> sql, data |-> outcome.rows,
                    columns |-> [i \in DOMAIN outcome.fields[1] |->
                                   outcome.fields[1][i].name],
                    executionTime |-> elapsed,
                    rowCount |-> Len(outcome.rows) ] ]

\* connection.execute settles; executeQuery's finally runs, then the route's
\* continuation or its catch.
ExecuteSettles(r, outcome, elapsed) ==
  /\ req[r].pc = "execute"
  /\ executed' = [executed EXCEPT ![r] = outcome.kind]
  /\ IF ReleaseAfter(outcome)
     THEN /\ checkedOut' = checkedOut \ {req[r].conn}
          /\ released' = [released EXCEPT ![r] = @ + 1]
     ELSE UNCHANGED <<checkedOut, released>>
  /\ IF outcome.kind = "error"
     THEN Respond(r, GenericFailure)
     ELSE Respond(r, FormatResult(req[r].body.sql, outcome, elapsed))
  /\ UNCHANGED acquired

\* ------------------------------------------ App and DatasetUpload ----
\* error.response?.status !== 404
NotFound == 404

\* String.prototype.endsWith
EndsWith(s, suffix) ==
  /\ Len(s) >= Len(suffix)
  /\ SubSeq(s, Len(s) - Len(suffix) + 1, Len(s)) = suffix

\* Names of the files the user browses to or drops.
FileNames == {"a.csv", "b.csv", "a.CSV", "a.txt", "a.csv.bak"}

\* Bodies the server answers with to /upload and /dataset.
DatasetInfos ==
  { [columns |-> <<[name |-> "region", type |-> "object"]>>,
     row_count |-> 2, created_at |-> "t1"],
    [columns |-> <<[name |-> "region", type |-> "object"],
                   [name |-> "total", type |-> "int64"]>>,
     row_count |-> 5, created_at |-> "t2"] }

\* Outcomes of api.get('/dataset'): a body, or a rejection with the status
\* of the answer (none when there was no answer).
LoadOutcomes ==
  { [kind |-> "ok", data |-> d, status |-> Undefined] : d \in DatasetInfos }
  \cup
  { [kind |-> "error", data |-> Undefined, status |-> s] :
      s \in {Some(NotFound), Some(500), Undefined} }

\* Outcomes of api.post('/upload'): a body, or a rejection carrying
\* error.response?.data?.detail and error.message, each possibly absent.
UploadOutcomes ==
  { [kind |-> "ok", data |-> d, detail |-> Undefined, message |-> Undefined] :
      d \in DatasetInfos }
  \cup
  { [kind |-> "error", data |-> Undefined, detail |-> dt, message |-> msg] :
      dt \in {Undefined, Some(""), Some("Only CSV files are supported")},
      msg \in {Undefined, Some("Request failed with status code 400")} }

VARIABLES
  dataset,        \* App: the active dataset, Undefined for null
  appIsLoading,   \* App: isLoading
  showUpload,     \* App: the upload modal is open (DatasetUpload is mounted)
  uploadSuccess,  \* App: the upload-success flag
  closeTimer,     \* App: the 2 s timer of the uploadSuccess effect is armed
  loadPending,    \* App: loadDataset awaits getCurrentDataset
  consoleErrors,  \* the labels written with console.error
  file,           \* DatasetUpload: the selected file's name, Undefined for null
  isUploading,    \* DatasetUpload: the uploading flag
  error,          \* DatasetUpload: the error banner's text, Undefined for null
  uploads,        \* the handleSubmit calls awaiting uploadDataset
  uploadCalls,    \* the file names uploadDataset has been called with
  uploadsMade,    \* number of uploadDataset calls so far
  lastUploaded    \* the body of the latest successful upload, if any

uploadVars ==
  <<dataset, appIsLoading, showUpload, uploadSuccess, closeTimer, loadPending,
    consoleErrors, file, isUploading, error, uploads, uploadCalls,
    uploadsMade, lastUploaded>>

\* The App has just mounted: loadDataset is under way, no modal is open.
UploadInit ==
  /\ dataset = Undefined
  /\ appIsLoading = TRUE
  /\ showUpload = FALSE
  /\ uploadSuccess = FALSE
  /\ closeTimer = FALSE
  /\ loadPending = TRUE
  /\ consoleErrors = {}
  /\ file = Undefined
  /\ isUploading = FALSE
  /\ error = Undefined
  /\ uploads = {}
  /\ uploadCalls = {}
  /\ uploadsMade = 0
  /\ lastUploaded = Undefined

\* The App after loadDataset got a 404: the chat interface is shown.
UploadIdle ==
  /\ dataset = Undefined
  /\ appIsLoading = FALSE
  /\ showUpload = FALSE
  /\ uploadSuccess = FALSE
  /\ closeTimer = FALSE
  /\ loadPending = FALSE
  /\ consoleErrors = {"Error getting dataset:"}
  /\ file = Undefined
  /\ isUploading = FALSE
  /\ error = Undefined
  /\ uploads = {}
  /\ uploadCalls = {}
  /\ uploadsMade = 0
  /\ lastUploaded = Undefined

\* getCurrentDataset: logs and rethrows every rejection.
getCurrentDatasetLogs(outcome) ==
  IF outcome.kind = "error" THEN {"Error getting dataset:"} ELSE {}

\* loadDataset's catch: logs unless the status is 404.
loadDatasetLogs(outcome) ==
  IF outcome.kind = "error" /\ outcome.status # Some(NotFound)
  THEN {"Error loading dataset:"}
  ELSE {}

\* The mount effect's loadDataset, from the await to the finally.
loadDataset(outcome) ==
  /\ loadPending
  /\ loadPending' = FALSE
  /\ dataset' = (IF outcome.kind = "ok" THEN Some(outcome.data) ELSE dataset)
  /\ consoleErrors' =
       consoleErrors \cup getCurrentDatasetLogs(outcome)
                     \cup loadDatasetLogs(outcome)
  /\ appIsLoading' = FALSE
  /\ UNCHANGED <<showUpload, uploadSuccess, closeTimer, file, isUploading,
                 error, uploads, uploadCalls, uploadsMade, lastUploaded>>

\* setUploadSuccess(v) with the effect on [uploadSuccess]: a change to true
\* arms the timer, a change to false runs the cleanup that clears it.
setUploadSuccess(v) ==
  /\ uploadSuccess' = v
  /\ closeTimer' = (IF v = uploadSuccess THEN closeTimer ELSE v)

\* DatasetUpload leaves the screen: its state is dropped, and the calls it
\* has suspended will settle on an unmounted component.
Unmount ==
  /\ file' = Undefined
  /\ isUploading' = FALSE
  /\ error' = Undefined
  /\ uploads' = { [u EXCEPT !.mounted = FALSE] : u \in uploads }

ChatShownAlways == TRUE

\* ChatInterface is rendered, with its two upload buttons, once App is not
\* loading.
ChatShown == ~appIsLoading

onUploadClickToggles ==
  /\ ChatShown
  /\ showUpload' = ~showUpload
  /\ UNCHANGED <<dataset, appIsLoading, uploadSuccess, closeTimer,
                 loadPending, consoleErrors, file, isUploading, error,
                 uploads, uploadCalls, uploadsMade, lastUploaded>>

\* onUploadClick={() => setShowUpload(true)}
onUploadClick ==
  /\ ChatShown
  /\ showUpload' = TRUE
  /\ UNCHANGED <<dataset, appIsLoading, uploadSuccess, closeTimer,
                 loadPending, consoleErrors, file, isUploading, error,
                 uploads, uploadCalls, uploadsMade, lastUploaded>>

\* The modal's close button.
CloseUpload ==
  /\ showUpload
  /\ showUpload' = FALSE
  /\ setUploadSuccess(FALSE)
  /\ Unmount
  /\ UNCHANGED <<dataset, appIsLoading, loadPending, consoleErrors,
                 uploadCalls, uploadsMade, lastUploaded>>

\* The timer of the uploadSuccess effect fires: setShowUpload(false).
TimerFires ==
  /\ closeTimer
  /\ closeTimer' = FALSE
  /\ showUpload' = FALSE
  /\ IF showUpload
     THEN Unmount
     ELSE UNCHANGED <<file, isUploading, error, uploads>>
  /\ UNCHANGED <<dataset, appIsLoading, uploadSuccess, loadPending,
                 consoleErrors, uploadCalls, uploadsMade, lastUploaded>>

IsCsvNameAnywhere(name) == Includes(name, ".csv")

\* selectedFile.name.endsWith('.csv')
IsCsvName(name) == EndsWith(name, ".csv")

handleFileRejectClearsFile(name) ==
  IF ~IsCsvName(name)
  THEN /\ error' = Some("Please upload a CSV file")
       /\ file' = Undefined
       /\ UNCHANGED <<uploadSuccess, closeTimer>>
  ELSE /\ file' = Some(name)
       /\ error' = Undefined
       /\ setUploadSuccess(FALSE)

\* handleFile
handleFile(name) ==
  IF ~IsCsvName(name)
  THEN /\ error' = Some("Please upload a CSV file")
       /\ UNCHANGED <<file, uploadSuccess, closeTimer>>
  ELSE /\ file' = Some(name)
       /\ error' = Undefined
       /\ setUploadSuccess(FALSE)

\* handleChange: the file input, disabled while uploading.
handleChange(name) ==
  /\ showUpload
  /\ ~isUploading
  /\ handleFile(name)
  /\ UNCHANGED <<dataset, appIsLoading, showUpload, loadPending,
                 consoleErrors, isUploading, uploads, uploadCalls,
                 uploadsMade, lastUploaded>>

\* handleDrop: the drop zone, never disabled.
handleDrop(name) ==
  /\ showUpload
  /\ handleFile(name)
  /\ UNCHANGED <<dataset, appIsLoading, showUpload, loadPending,
                 consoleErrors, isUploading, uploads, uploadCalls,
                 uploadsMade, lastUploaded>>

\* The Clear button.
ClearFile ==
  /\ showUpload
  /\ file' = Undefined
  /\ error' = Undefined
  /\ setUploadSuccess(FALSE)
  /\ UNCHANGED <<dataset, appIsLoading, showUpload, loadPending,
                 consoleErrors, isUploading, uploads, uploadCalls,
                 uploadsMade, lastUploaded>>

\* disabled={!file || isUploading} on the submit button.
SubmitDisabled == file = Undefined \/ isUploading

\* DatasetUpload.handleSubmit up to its await of uploadDataset(file).
UploadSubmit ==
  /\ showUpload
  /\ ~SubmitDisabled
  /\ uploadsMade < MaxUploads
  /\ IF file = Undefined
     THEN /\ error' = Some("Please select a file to upload")
          /\ UNCHANGED <<isUploading, uploadSuccess, closeTimer, uploads,
                         uploadCalls, uploadsMade, lastUploaded>>
     ELSE /\ isUploading' = TRUE
          /\ error' = Undefined
          /\ setUploadSuccess(FALSE)
          /\ uploads' = uploads \cup
               { [id |-> uploadsMade + 1, file |-> file[1], mounted |-> TRUE] }
          /\ uploadCalls' = uploadCalls \cup {file[1]}
          /\ uploadsMade' = uploadsMade + 1
          /\ lastUploaded' = lastUploaded
  /\ UNCHANGED <<dataset, appIsLoading, showUpload, loadPending,
                 consoleErrors, file>>

\* uploadDataset: logs and rethrows every rejection.
uploadDatasetLogs(outcome) ==
  IF outcome.kind = "error" THEN {"Error uploading dataset:"} ELSE {}

UploadErrorTextMessageFirst(outcome) ==
  OrElse(OrElse(outcome.message, outcome.detail),
         Some("Failed to upload dataset"))

\* error.response?.data?.detail || error.message || 'Failed to upload dataset'
UploadErrorText(outcome) ==
  OrElse(OrElse(outcome.detail, outcome.message),
         Some("Failed to upload dataset"))

handleDatasetUploadedOnce(newDataset) ==
  /\ dataset' = (IF dataset = Undefined THEN Some(newDataset) ELSE dataset)
  /\ setUploadSuccess(TRUE)

\* App.handleDatasetUploaded
handleDatasetUploaded(newDataset) ==
  /\ dataset' = Some(newDataset)
  /\ setUploadSuccess(TRUE)

\* DatasetUpload.handleSubmit from the await on: try, catch, finally.  The
\* state setters of a DatasetUpload that has left the screen do nothing.
UploadSettles(u, outcome) ==
  /\ u \in uploads
  /\ uploads' = uploads \ {u}
  /\ consoleErrors' = consoleErrors \cup uploadDatasetLogs(outcome)
  /\ IF outcome.kind = "ok"
     THEN /\ handleDatasetUploaded(outcome.data)
          /\ error' = error
     ELSE /\ error' = (IF u.mounted THEN UploadErrorText(outcome) ELSE error)
          /\ UNCHANGED <<dataset, uploadSuccess, closeTimer>>
  /\ isUploading' = (IF u.mounted THEN FALSE ELSE isUploading)
  /\ lastUploaded' =
       (IF outcome.kind = "ok" THEN Some(outcome.data) ELSE lastUploaded)
  /\ UNCHANGED <<appIsLoading, showUpload, loadPending, file, uploadCalls,
                 uploadsMade>>

\* The upload button of the no_dataset panel: onClick={onUploadClick}.
UploadCallToAction ==
  /\ rendered # NotRendered
  /\ rendered.uploadButton
  /\ onUploadClick

\* ------------------------------------------------------- formatValue ----
\* A cell value: null, undefined (the row has no such key), a number (kept
\* in thousandths, 1234.5 is 1234500), a string or a boolean; t is its
\* typeof-kind and n, s or b holds it.
Null == [t |-> "null", n |-> 0, s |-> "", b |-> FALSE]
Missing == [t |-> "undefined", n |-> 0, s |-> "", b |-> FALSE]
Num(thousandths) ==
  [t |-> "number", n |-> thousandths, s |-> "", b |-> FALSE]
Str(text) == [t |-> "string", n |-> 0, s |-> text, b |-> FALSE]
Bool(flag) == [t |-> "boolean", n |-> 0, s |-> "", b |-> flag]

CellValues ==
  { Null, Missing,
    Num(1234500), Num(0), Num(-5000), Num(1234567891), Num(4), Num(86400000),
    Str("abc"), Str(""), Str("12.5"), Str("1970-01-02"),
    Bool(TRUE), Bool(FALSE) }

ColumnNames ==
  { "score", "region", "", "order_date", "Order_Date", "TIMESTAMP",
    "update_total", "total_revenue", "Total", "Price", "AMOUNT",
    "amount_time" }

Digit(d) == SubSeq("0123456789", d + 1, d + 1)

RECURSIVE NatToString(_)
NatToString(n) ==
  IF n < 10 THEN Digit(n) ELSE NatToString(n \div 10) \o Digit(n % 10)

TwoDigits(n) == Digit(n \div 10) \o Digit(n % 10)

ThreeDigits(n) == Digit(n \div 100) \o TwoDigits(n % 100)

\* en-US grouping of the integer part.
RECURSIVE Grouped(_)
Grouped(n) ==
  IF n < 1000
  THEN NatToString(n)
  ELSE Grouped(n \div 1000) \o "," \o ThreeDigits(n % 1000)

Abs(n) == IF n < 0 THEN 0 - n ELSE n

\* minimumFractionDigits: 2, maximumFractionDigits: 2 (half away from zero).
TwoFractionDigits(thousandths) ==
  LET hundredths == (Abs(thousandths) + 5) \div 10
  IN  Grouped(hundredths \div 100) \o "." \o TwoDigits(hundredths % 100)

\* value.toLocaleString('en-US', {minimumFractionDigits: 2, ...})
toLocaleNumber(thousandths) ==
  (IF thousandths < 0 THEN "-" ELSE "") \o TwoFractionDigits(thousandths)

\* value.toLocaleString('en-US', {style: 'currency', currency: 'USD', ...})
toLocaleCurrency(thousandths) ==
  (IF thousandths < 0 THEN "-" ELSE "") \o "$" \o TwoFractionDigits(thousandths)

\* String(value) of a string or a boolean.
StringOf(value) ==
  IF value.t = "string" THEN value.s
  ELSE IF value.b THEN "true" ELSE "false"

\* new Date(value): the instant in milliseconds, Undefined for an invalid
\* date.  A number is milliseconds (its fraction dropped), a boolean is 0 or
\* 1; of the strings only the ISO date is parsed, the parsing of any other
\* text being left to the browser.
NewDate(value) ==
  IF value.t = "number"
  THEN Some((IF value.n < 0 THEN 0 - 1 ELSE 1) * (Abs(value.n) \div 1000))
  ELSE IF value.t = "boolean" THEN Some(IF value.b THEN 1 ELSE 0)
  ELSE IF value.s = "1970-01-02" THEN Some(86400000)
  ELSE Undefined

\* Date.prototype.toLocaleString: 'Invalid Date' for an invalid date; the
\* text of a valid one depends on the browser's locale and time zone and is
\* kept as the instant it spells out.
DateToLocaleString(date) ==
  IF date = Undefined
  THEN "Invalid Date"
  ELSE "date-time of instant "
         \o (IF date[1] < 0 THEN "-" ELSE "") \o NatToString(Abs(date[1]))

IsDateColumn(columnName) ==
  \/ Includes(ToLowerCase(columnName), "date")
  \/ Includes(ToLowerCase(columnName), "time")

IsCurrencyColumnWithoutTotal(columnName) ==
  \/ Includes(ToLowerCase(columnName), "amount")
  \/ Includes(ToLowerCase(columnName), "price")
  \/ Includes(ToLowerCase(columnName), "revenue")

IsCurrencyColumn(columnName) ==
  \/ Includes(ToLowerCase(columnName), "amount")
  \/ Includes(ToLowerCase(columnName), "price")
  \/ Includes(ToLowerCase(columnName), "revenue")
  \/ Includes(ToLowerCase(columnName), "total")

formatValue(value, columnName) ==
  IF value.t \in {"null", "undefined"} THEN "N/A"
  ELSE IF IsDateColumn(columnName)
  THEN DateToLocaleString(NewDate(value))
  ELSE IF IsCurrencyColumn(columnName)
  THEN IF value.t = "number" THEN toLocaleCurrency(value.n)
       ELSE StringOf(value)
  ELSE IF value.t = "number" THEN toLocaleNumber(value.n)
  ELSE StringOf(value)

getColumnType(columnName, sampleValue) ==
  IF IsDateColumn(columnName) THEN "date"
  ELSE IF IsCurrencyColumn(columnName) THEN "currency"
  ELSE IF sampleValue.t = "number" THEN "number"
  ELSE "text"

NotFormatted == [done |-> FALSE, text |-> "", type |-> ""]

VARIABLES
  cell,       \* the value and the column name handed to formatValue
  formatted   \* the cell's text and the column's type, once computed

formatVars == <<cell, formatted>>

FormatIdle ==
  /\ cell = [value |-> Null, columnName |-> "score"]
  /\ formatted = NotFormatted

FormatInit ==
  /\ cell \in [value : CellValues, columnName : ColumnNames]
  /\ formatted = NotFormatted

\* renderDataTable formats one cell of a column.
FormatCell ==
  /\ ~formatted.done
  /\ formatted' =
       [done |-> TRUE,
        text |-> formatValue(cell.value, cell.columnName),
        type |-> getColumnType(cell.columnName, cell.value)]
  /\ cell' = cell

\* ---------------------------------------------- processMessageContent ----
\* The lines texts are made of: bullets (one indented, one bare), plain
\* lines (one with an asterisk inside), and the empty line.
TextLines == {"* a", "  * b", "*", "x", "a*b", ""}

RECURSIVE Join(_)
\* lines.join('\n')
Join(lines) ==
  IF Len(lines) = 0 THEN ""
  ELSE IF Len(lines) = 1 THEN lines[1]
  ELSE lines[1] \o "\n" \o Join(SubSeq(lines, 2, Len(lines)))

RECURSIVE SeqsUpTo(_, _)
SeqsUpTo(S, n) ==
  IF n = 0 THEN {<<>>}
  ELSE LET shorter == SeqsUpTo(S, n - 1)
       IN  shorter \cup {Append(q, x) : q \in shorter, x \in S}

Texts == {Join(lines) : lines \in SeqsUpTo(TextLines, MaxLines)}

RECURSIVE SplitFrom(_, _)
\* text.split('\n'): cur is the line being read.
SplitFrom(text, cur) ==
  IF text = "" THEN <<cur>>
  ELSE IF SubSeq(text, 1, 1) = "\n"
  THEN <<cur>> \o SplitFrom(SubSeq(text, 2, Len(text)), "")
  ELSE SplitFrom(SubSeq(text, 2, Len(text)), cur \o SubSeq(text, 1, 1))

Split(text) == SplitFrom(text, "")

StartsWith(s, prefix) ==
  Len(s) >= Len(prefix) /\ SubSeq(s, 1, Len(prefix)) = prefix

IsListLineUntrimmed(line) == StartsWith(line, "*")

\* line.trim().startsWith('*')
IsListLine(line) == StartsWith(Trim(line), "*")

\* item.trimStart().substring(1).trim()
ListItemText(item) ==
  LET t == TrimStart(item) IN Trim(SubSeq(t, 2, Len(t)))

\* renderParagraph / renderList: push an element unless there are no lines.
\* An element keeps the lines it was made of and the text it shows.
PushParagraph(elements, paragraphLines) ==
  IF Len(paragraphLines) > 0
  THEN Append(elements, [kind |-> "p", lines |-> paragraphLines,
                         shows |-> <<Join(paragraphLines)>>])
  ELSE elements

PushList(elements, listItems) ==
  IF Len(listItems) > 0
  THEN Append(elements, [kind |-> "ul", lines |-> listItems,
                         shows |-> [i \in 1..Len(listItems) |->
                                      ListItemText(listItems[i])]])
  ELSE elements

RECURSIVE ForEachLine(_, _, _, _)
\* lines.forEach(...) and the two calls after it.
ForEachLine(lines, elements, currentParagraphLines, currentListItems) ==
  IF lines = <<>>
  THEN PushList(PushParagraph(elements, currentParagraphLines),
                currentListItems)
  ELSE LET line == lines[1]
           rest == SubSeq(lines, 2, Len(lines))
       IN  IF IsListLine(line)
           THEN ForEachLine(rest,
                            PushParagraph(elements, currentParagraphLines),
                            <<>>, Append(currentListItems, line))
           ELSE ForEachLine(rest,
                            PushList(elements, currentListItems),
                            Append(currentParagraphLines, line), <<>>)

\* processMessageContent: Undefined for the null it returns on a falsy text.
processMessageContent(text) ==
  IF ~Truthy(text) THEN Undefined
  ELSE Some(ForEachLine(Split(text[1]), <<>>, <<>>, <<>>))

NotProcessed == [done |-> FALSE, result |-> Undefined]

VARIABLES
  content,    \* the text handed to processMessageContent
  processed   \* what it returned (Undefined for null), once called

textVars == <<content, processed>>

TextIdle ==
  /\ content = Undefined
  /\ processed = NotProcessed

TextInit ==
  /\ content \in {Undefined} \cup {Some(t) : t \in Texts}
  /\ processed = NotProcessed

ProcessText ==
  /\ ~processed.done
  /\ processed' = [done |-> TRUE, result |-> processMessageContent(content)]
  /\ content' = content

\* ------------------------------------------------ VisualizationPanel ----
\* A row is the sequence of its keys, in insertion order, with their values.
Cell(col, val) == [col |-> col, val |-> val]

SalesRows ==
  << <<Cell("region", Str("north")), Cell("total", Num(3000))>>,
     <<Cell("region", Str("south")), Cell("total", Num(5000))>> >>

MixedRows ==
  << <<Cell("year", Num(2024000)), Cell("name", Str("ann")),
       Cell("active", Bool(TRUE)), Cell("amount", Str("12.5")),
       Cell("note", Null), Cell("code", Str("7a")), Cell("blank", Str(""))>> >>

CountRows ==
  << <<Cell("a", Num(1000)), Cell("b", Num(2000))>>,
     <<Cell("a", Num(3000)), Cell("b", Num(4000))>> >>

\* The row sets App hands to the panel: a table's Visualize button is only
\* rendered for a row set that is not empty.
RowSets == {SalesRows, MixedRows, CountRows}

IsDigit(c) == c \in {"0", "1", "2", "3", "4", "5", "6", "7", "8", "9"}

\* The decimal numerals Number(s) parses (sign, digits, one point); the
\* empty string converts to 0.  Exponents, hex and Infinity are not among
\* the values used here.
IsDecimalNumeral(s) ==
  LET body == IF Len(s) > 0 /\ SubSeq(s, 1, 1) \in {"-", "+"}
              THEN SubSeq(s, 2, Len(s)) ELSE s
      points == {i \in 1..Len(body) : SubSeq(body, i, i) = "."}
  IN  /\ \A i \in 1..Len(body) :
           IsDigit(SubSeq(body, i, i)) \/ SubSeq(body, i, i) = "."
      /\ Cardinality(points) <= 1
      /\ \E i \in 1..Len(body) : IsDigit(SubSeq(body, i, i))

NumericParseableNumbersOnly(value) == value.t = "number"

\* !isNaN(Number(value)): null converts to 0, a boolean to 0 or 1, undefined
\* to NaN, a string by its trimmed text.
NumericParseable(value) ==
  CASE value.t = "number" -> TRUE
    [] value.t = "null" -> TRUE
    [] value.t = "boolean" -> TRUE
    [] value.t = "undefined" -> FALSE
    [] value.t = "string" ->
         Trim(value.s) = "" \/ IsDecimalNumeral(Trim(value.s))

\* Object.keys(data[0])
columns(data) == [i \in 1..Len(data[1]) |-> data[1][i].col]

RECURSIVE FilterCells(_, _)
FilterCells(row, keep) ==
  IF row = <<>> THEN <<>>
  ELSE (IF keep[1] THEN <<row[1].col>> ELSE <<>>)
         \o FilterCells(SubSeq(row, 2, Len(row)), SubSeq(keep, 2, Len(keep)))

\* columns.filter(col => typeof data[0][col] === 'number' ||
\*                       !isNaN(Number(data[0][col])))
numericColumns(data) ==
  FilterCells(data[1],
    [i \in 1..Len(data[1]) |->
       data[1][i].val.t = "number" \/ NumericParseable(data[1][i].val)])

\* columns.filter(col => typeof data[0][col] === 'string' ||
\*                       typeof data[0][col] === 'boolean')
categoricalColumns(data) ==
  FilterCells(data[1],
    [i \in 1..Len(data[1]) |-> data[1][i].val.t \in {"string", "boolean"}])

chartTypes ==
  <<"bar", "line", "pie", "donut", "area", "scatter", "radar", "radialBar">>

VARIABLES
  panelOpen,      \* App: showVisualization && lastData (the panel is mounted)
  lastData,       \* App: lastData, the data prop of the panel
  chartType,      \* the chosen chart kind
  selectedXAxis,  \* the selected X column, "" when none
  selectedYAxis   \* the selected Y column, "" when none

panelVars == <<panelOpen, lastData, chartType, selectedXAxis, selectedYAxis>>

\* No panel on the screen; the state a panel mounts with.
PanelInit ==
  /\ panelOpen = FALSE
  /\ lastData = <<>>
  /\ chartType = "bar"
  /\ selectedXAxis = ""
  /\ selectedYAxis = ""

AxisUnsetAlways(axis) == TRUE

\* !selectedXAxis, !selectedYAxis
AxisUnset(axis) == axis = ""

\* The effect on [data]: "Initialize axis selections if not set".
InitAxes(newData) ==
  /\ selectedXAxis' =
       (IF AxisUnset(selectedXAxis) /\ Len(categoricalColumns(newData)) > 0
        THEN categoricalColumns(newData)[1] ELSE selectedXAxis)
  /\ selectedYAxis' =
       (IF AxisUnset(selectedYAxis) /\ Len(numericColumns(newData)) > 0
        THEN numericColumns(newData)[1] ELSE selectedYAxis)

\* App.handleVisualizeData: setLastData(data); setShowVisualization(true).
\* The panel mounts, or an open panel gets a new row set; either way the
\* effect on [data] runs.
handleVisualizeData(newData) ==
  /\ lastData' = newData
  /\ panelOpen' = TRUE
  /\ InitAxes(newData)
  /\ chartType' = chartType

\* App.handleCloseVisualization: the panel unmounts and its state is gone.
handleCloseVisualization ==
  /\ panelOpen
  /\ panelOpen' = FALSE
  /\ lastData' = lastData
  /\ chartType' = "bar"
  /\ selectedXAxis' = ""
  /\ selectedYAxis' = ""

\* A chart type button.
setChartType(type) ==
  /\ panelOpen
  /\ chartType' = type
  /\ UNCHANGED <<panelOpen, lastData, selectedXAxis, selectedYAxis>>

\* The X select lists every column.
setSelectedXAxis(col) ==
  /\ panelOpen
  /\ \E i \in 1..Len(columns(lastData)) : columns(lastData)[i] = col
  /\ selectedXAxis' = col
  /\ UNCHANGED <<panelOpen, lastData, chartType, selectedYAxis>>

\* {chartType !== 'pie' && <Y select/>}
YSelectorShown == chartType # "pie"

\* The Y select lists the numeric columns.
setSelectedYAxis(col) ==
  /\ panelOpen
  /\ YSelectorShown
  /\ \E i \in 1..Len(numericColumns(lastData)) : numericColumns(lastData)[i] = col
  /\ selectedYAxis' = col
  /\ UNCHANGED <<panelOpen, lastData, chartType, selectedXAxis>>

ColumnNamesOf(rowSets) ==
  UNION { {columns(d)[i] : i \in 1..Len(columns(d))} : d \in rowSets }

\* ------------------------------------------------------- voice input ----
\* What the recognition service hears, as it grows during one utterance.
Transcripts == {"show", "show sales", "show sales by region"}

VARIABLES
  isListening,  \* the listening indicator of ChatInterface
  session,      \* the recognition session: "none", "listening", "ending"
  startCalls,   \* number of calls of recognition.start() so far
  lastCall      \* what the last mic click called on the recognition object

voiceVars == <<isListening, session, startCalls, lastCall>>

\* The chat state a recognition result leaves alone (it writes the input).
chatRest == <<messages, isLoading, inflight, subs, appended, attempted>>

\* ChatInterface mounted in a browser that has SpeechRecognition: the effect
\* has created the recognition object, no session has been started.
VoiceInit ==
  /\ isListening = FALSE
  /\ session = "none"
  /\ startCalls = 0
  /\ lastCall = "none"

\* recognition.abort(): a running session stops delivering results; it is
\* over when its end event has been dispatched.
abort == session' = (IF session = "none" THEN "none" ELSE "ending")

\* recognition.start(): begins a session; on a recognition object whose
\* session has not ended yet it throws InvalidStateError and changes
\* nothing.
start == session' = (IF session = "none" THEN "listening" ELSE session)

\* The microphone button (disabled while the chat is loading).
handleMicClick ==
  /\ ~ControlsDisabled
  /\ IF isListening
     THEN /\ abort
          /\ isListening' = FALSE
          /\ lastCall' = "abort"
          /\ UNCHANGED startCalls
     ELSE /\ startCalls < MaxStarts
          /\ isListening' = TRUE
          /\ start
          /\ startCalls' = startCalls + 1
          /\ lastCall' = (IF session = "none" THEN "start" ELSE "startRejected")
  /\ UNCHANGED chatVars

\* recognition.onresult: the transcript goes to the input field; a final
\* result clears the indicator.  With continuous = false the service ends
\* the session after the final result; the end event follows.
onresult(transcript, isFinal) ==
  /\ session = "listening"
  /\ input' = transcript
  /\ isListening' = (IF isFinal THEN FALSE ELSE isListening)
  /\ session' = (IF isFinal THEN "ending" ELSE session)
  /\ UNCHANGED <<chatRest, startCalls, lastCall>>

\* recognition.onerror (no speech, no permission, network): the session
\* is given up; the end event follows.
onerror ==
  /\ session = "listening"
  /\ isListening' = FALSE
  /\ session' = "ending"
  /\ UNCHANGED <<chatVars, startCalls, lastCall>>

\* recognition.onend: the session is over.
onend ==
  /\ session # "none"
  /\ isListening' = FALSE
  /\ session' = "none"
  /\ UNCHANGED <<chatVars, startCalls, lastCall>>

\* ------------------------------------------------ DatabaseConnection ----
\* The tables GET /db/tables lists.
Tables == <<"orders", "users">>

\* GET /db/table/{t}/schema and /preview: the rows name their table.
SchemaOf(t) == <<[table |-> t, Field |-> "id"], [table |-> t, Field |-> "name"]>>
PreviewOf(t) == <<[table |-> t, id |-> 1]>>

\* How handleConnect's requests end: POST /db/connect answers success and
\* the tables are fetched, or their fetch fails, or the answer is not
\* 'success', or the POST fails with or without a detail.
ConnectOutcomes ==
  { [kind |-> "connected", detail |-> Undefined],
    [kind |-> "tablesFailed", detail |-> Undefined],
    [kind |-> "notSuccess", detail |-> Undefined],
    [kind |-> "connectFailed", detail |-> Undefined],
    [kind |-> "connectFailed", detail |-> Some("Access denied")] }

\* How the Promise.all of handleTableSelect ends.
DetailOutcomes ==
  { [ok |-> TRUE, detail |-> Undefined],
    [ok |-> FALSE, detail |-> Undefined],
    [ok |-> FALSE, detail |-> Some("Table not found")] }

VARIABLES
  dbLoading,      \* loading: a connect is under way
  dbError,        \* error: the message shown, Undefined when null
  tables,         \* the table buttons
  selectedTable,  \* the selected table, Undefined when null
  tableSchema,    \* the schema rows held
  tablePreview,   \* the preview rows held
  dbPending,      \* the handleTableSelect calls suspended at their await
  selects         \* number of table selections so far

dbVars ==
  <<dbLoading, dbError, tables, selectedTable, tableSchema, tablePreview,
    dbPending, selects>>

DbInit ==
  /\ dbLoading = FALSE
  /\ dbError = Undefined
  /\ tables = <<>>
  /\ selectedTable = Undefined
  /\ tableSchema = <<>>
  /\ tablePreview = <<>>
  /\ dbPending = {}
  /\ selects = 0

\* The Connect button (disabled while loading), up to the first await.
handleConnect ==
  /\ ~dbLoading
  /\ dbLoading' = TRUE
  /\ dbError' = Undefined
  /\ UNCHANGED <<tables, selectedTable, tableSchema, tablePreview,
                 dbPending, selects>>

\* handleConnect from the answer of POST /db/connect to its finally,
\* fetchTables included.
ConnectSettles(outcome) ==
  /\ dbLoading
  /\ dbLoading' = FALSE
  /\ tables' = (IF outcome.kind = "connected" THEN Tables ELSE tables)
  /\ dbError' =
       (CASE outcome.kind = "connectFailed" ->
               OrElse(outcome.detail, Some("Failed to connect to database"))
          [] outcome.kind = "tablesFailed" ->
               OrElse(outcome.detail, Some("Failed to fetch tables"))
          [] OTHER -> dbError)
  /\ UNCHANGED <<selectedTable, tableSchema, tablePreview, dbPending, selects>>

\* A table button, up to the await of the two requests.
handleTableSelect(tableName) ==
  /\ \E i \in 1..Len(tables) : tables[i] = tableName
  /\ selects < MaxSelects
  /\ selectedTable' = Some(tableName)
  /\ dbPending' = dbPending \cup {[id |-> selects + 1, table |-> tableName]}
  /\ selects' = selects + 1
  /\ UNCHANGED <<dbLoading, dbError, tables, tableSchema, tablePreview>>

\* handleTableSelect after its await: both answers are stored, or the
\* first failure is caught.
TableDetailsSettle(p, outcome) ==
  /\ p \in dbPending
  /\ dbPending' = dbPending \ {p}
  /\ IF outcome.ok
     THEN /\ tableSchema' = SchemaOf(p.table)
          /\ tablePreview' = PreviewOf(p.table)
          /\ dbError' = dbError
     ELSE /\ dbError' =
               OrElse(outcome.detail, Some("Failed to fetch table details"))
          /\ UNCHANGED <<tableSchema, tablePreview>>
  /\ UNCHANGED <<dbLoading, tables, selectedTable, selects>>

\* {selectedTable && tableSchema.length > 0 && <Table Schema/>}
SchemaShown == selectedTable # Undefined /\ Len(tableSchema) > 0

\* {selectedTable && tablePreview.length > 0 && <Table Preview/>}
PreviewShown == selectedTable # Undefined /\ Len(tablePreview) > 0

\* ---------------------------------------------------- specifications ----
vars ==
  <<chatVars, renderVars, execVars, uploadVars, formatVars, textVars, panelVars,
    voiceVars, dbVars>>

\* What each component leaves alone.
notChat == <<renderVars, execVars, uploadVars, formatVars, textVars, panelVars,
  voiceVars, dbVars>>
notRender == <<chatVars, execVars, uploadVars, formatVars, textVars, panelVars,
  voiceVars, dbVars>>
notExec == <<chatVars, renderVars, uploadVars, formatVars, textVars, panelVars,
  voiceVars, dbVars>>
notUpload == <<chatVars, renderVars, execVars, formatVars, textVars, panelVars,
  voiceVars, dbVars>>
notFormat == <<chatVars, renderVars, execVars, uploadVars, textVars, panelVars,
  voiceVars, dbVars>>
notText == <<chatVars, renderVars, execVars, uploadVars, formatVars, panelVars,
  voiceVars, dbVars>>
notPanel == <<chatVars, renderVars, execVars, uploadVars, formatVars, textVars,
  voiceVars, dbVars>>
others == <<renderVars, execVars, uploadVars, formatVars, textVars, panelVars>>
notDb == <<chatVars, others, voiceVars>>

\* The chat machine.
Init ==
  /\ ChatInit /\ RenderIdle /\ ExecInit /\ UploadIdle
  /\ FormatIdle /\ TextIdle /\ PanelInit /\ VoiceInit /\ DbInit

Next ==
  \/ \E text \in Inputs : TypeInput(text) /\ UNCHANGED notChat
  \/ Submit /\ UNCHANGED notChat
  \/ \E f \in inflight : \E reply \in Replies :
       Resolve(f, reply) /\ UNCHANGED notChat
  \/ \E f \in inflight : QueryDone(f) /\ UNCHANGED notChat
  \/ handleBackToHome /\ UNCHANGED notChat

Spec == Init /\ [][Next]_vars

\* renderAssistantMessage applied to one turn.
InitRender ==
  /\ ChatInit /\ RenderInit /\ ExecInit /\ UploadIdle
  /\ FormatIdle /\ TextIdle /\ PanelInit /\ VoiceInit /\ DbInit

NextRender ==
  \/ RenderTurn /\ UNCHANGED notRender
  \/ UploadCallToAction /\ UNCHANGED notUpload

SpecRender == InitRender /\ [][NextRender]_vars

\* The SQL passthrough service under concurrent requests.
InitExecute ==
  /\ ChatInit /\ RenderIdle /\ ExecInit /\ UploadIdle
  /\ FormatIdle /\ TextIdle /\ PanelInit /\ VoiceInit /\ DbInit

NextExecute ==
  \/ \E r \in RequestIds : \E body \in PostBodies :
       Post(r, body) /\ UNCHANGED notExec
  \/ \E r \in RequestIds : \E c \in Connections :
       GetConnection(r, c) /\ UNCHANGED notExec
  \/ \E r \in RequestIds :
       GetConnectionFails(r) /\ UNCHANGED notExec
  \/ \E r \in RequestIds : \E outcome \in ExecuteOutcomes :
       \E elapsed \in ElapsedTimes :
         ExecuteSettles(r, outcome, elapsed) /\ UNCHANGED notExec

SpecExecute == InitExecute /\ [][NextExecute]_vars

\* App with the upload modal: loadDataset on mount, then DatasetUpload.
InitUpload ==
  /\ ChatInit /\ RenderIdle /\ ExecInit /\ UploadInit
  /\ FormatIdle /\ TextIdle /\ PanelInit /\ VoiceInit /\ DbInit

NextUpload ==
  \/ \E outcome \in LoadOutcomes :
       loadDataset(outcome) /\ UNCHANGED notUpload
  \/ onUploadClick /\ UNCHANGED notUpload
  \/ CloseUpload /\ UNCHANGED notUpload
  \/ TimerFires /\ UNCHANGED notUpload
  \/ \E name \in FileNames :
       handleChange(name) /\ UNCHANGED notUpload
  \/ \E name \in FileNames :
       handleDrop(name) /\ UNCHANGED notUpload
  \/ ClearFile /\ UNCHANGED notUpload
  \/ UploadSubmit /\ UNCHANGED notUpload
  \/ \E u \in uploads : \E outcome \in UploadOutcomes :
       UploadSettles(u, outcome) /\ UNCHANGED notUpload

SpecUpload == InitUpload /\ [][NextUpload]_vars

\* formatValue and getColumnType applied to one cell.
InitFormat ==
  /\ ChatInit /\ RenderIdle /\ ExecInit /\ UploadIdle
  /\ FormatInit /\ TextIdle /\ PanelInit /\ VoiceInit /\ DbInit

NextFormat == FormatCell /\ UNCHANGED notFormat

SpecFormat == InitFormat /\ [][NextFormat]_vars

\* processMessageContent applied to one text.
InitText ==
  /\ ChatInit /\ RenderIdle /\ ExecInit /\ UploadIdle
  /\ FormatIdle /\ TextInit /\ PanelInit /\ VoiceInit /\ DbInit

NextText == ProcessText /\ UNCHANGED notText

SpecText == InitText /\ [][NextText]_vars

\* VisualizationPanel under App's open and close, with its controls.
InitPanel ==
  /\ ChatInit /\ RenderIdle /\ ExecInit /\ UploadIdle
  /\ FormatIdle /\ TextIdle /\ PanelInit /\ VoiceInit /\ DbInit

NextPanel ==
  \/ \E rows \in RowSets : handleVisualizeData(rows) /\ UNCHANGED notPanel
  \/ handleCloseVisualization /\ UNCHANGED notPanel
  \/ \E i \in 1..Len(chartTypes) :
       setChartType(chartTypes[i]) /\ UNCHANGED notPanel
  \/ \E col \in ColumnNamesOf(RowSets) :
       setSelectedXAxis(col) /\ UNCHANGED notPanel
  \/ \E col \in ColumnNamesOf(RowSets) :
       setSelectedYAxis(col) /\ UNCHANGED notPanel

SpecPanel == InitPanel /\ [][NextPanel]_vars

\* Voice input: mic clicks interleaved with the recognition events.
InitVoice ==
  /\ ChatInit /\ RenderIdle /\ ExecInit /\ UploadIdle
  /\ FormatIdle /\ TextIdle /\ PanelInit /\ VoiceInit /\ DbInit

NextVoice ==
  \/ \E text \in Inputs : TypeInput(text) /\ UNCHANGED <<notChat>>
  \/ handleMicClick /\ UNCHANGED <<others, dbVars>>
  \/ \E transcript \in Transcripts : \E isFinal \in BOOLEAN :
       onresult(transcript, isFinal) /\ UNCHANGED <<others, dbVars>>
  \/ onerror /\ UNCHANGED <<others, dbVars>>
  \/ onend /\ UNCHANGED <<others, dbVars>>

SpecVoice == InitVoice /\ [][NextVoice]_vars

\* DatabaseConnection: connects and table selections with their answers
\* arriving in any order.
InitDb ==
  /\ ChatInit /\ RenderIdle /\ ExecInit /\ UploadIdle
  /\ FormatIdle /\ TextIdle /\ PanelInit /\ VoiceInit /\ DbInit

NextDb ==
  \/ handleConnect /\ UNCHANGED notDb
  \/ \E outcome \in ConnectOutcomes : ConnectSettles(outcome) /\ UNCHANGED notDb
  \/ \E i \in 1..Len(tables) : handleTableSelect(tables[i]) /\ UNCHANGED notDb
  \/ \E p \in dbPending : \E outcome \in DetailOutcomes :
       TableDetailsSettle(p, outcome) /\ UNCHANGED notDb

SpecDb == InitDb /\ [][NextDb]_vars

\* ------------------------------------------------------------ claims ----
SentAndAwaited(s) == \E f \in inflight : f.sub = s /\ f.at = "send"

\* C1: every accepted submission appends exactly one user turn at once and
\* exactly one assistant turn once its request has resolved (none before),
\* on success and on failure, the onQueryExecute step included.
C1_OneUserOneAssistantPerSubmission ==
  \A s \in 1..MaxSubmits :
    IF s > subs
    THEN appended[s] = [user |-> 0, assistant |-> 0]
    ELSE /\ appended[s].user = 1
         /\ appended[s].assistant = (IF SentAndAwaited(s) THEN 0 ELSE 1)

\* A failed and a successful submission (whose response carried sql) have
\* both run to their end.
C1_Witness ==
  /\ inflight = {}
  /\ \E i, j \in DOMAIN messages :
       /\ messages[i].content = ErrorText
       /\ messages[j].summary = Some("s1")
       /\ appended[messages[i].sub] = [user |-> 1, assistant |-> 1]
       /\ appended[messages[j].sub] = [user |-> 1, assistant |-> 1]

\* C2: whenever a chat send fails (network error, non-2xx status, malformed
\* body), the step appends the one synthetic assistant turn with the fixed
\* text directly after the user turn of that submission, and sends nothing
\* again.
C2_FailedSendAppendsErrorAfterUserTurn ==
  [][ \A f \in inflight : \A reply \in FailedReplies :
        Resolve(f, reply) =>
          /\ messages' = Append(messages, ErrorTurn(f.sub))
          /\ Len(messages) > 0
          /\ messages[Len(messages)] = UserTurn(f.message, f.sub)
          /\ subs' = subs
          /\ inflight' = inflight \ {f} ]_vars

\* C3: every assistant turn created by the catch branch is rendered with the
\* fixed failure text on the screen.
C3_ErrorTurnShowsFailureText ==
  \A i \in DOMAIN messages :
    (messages[i].role = "assistant" /\ messages[i].content = ErrorText) =>
      \E t \in ShownTexts(renderAssistantMessage(messages[i])) :
        Includes(t, ErrorText)

SpecialTags ==
  { "dataset_summary", "no_dataset", "knowledge_base", "greeting", "help",
    "ai_info", "operation", "general_knowledge", "out_of_scope", "error" }

HasSpecialTag(m) == m.type # Undefined /\ m.type[1] \in SpecialTags

\* C4: a turn whose type is dataset_summary, no_dataset or a narrative tag is
\* rendered with neither a SQL block nor a data table, whatever its query
\* and data.
C4_SpecialTypesShowNoSqlNoTable ==
  (rendered # NotRendered /\ HasSpecialTag(shown)) =>
    (rendered.sqlBlock = Undefined /\ rendered.table = Undefined)

\* A turn tagged error with a select query and rows has been rendered.
C4_Witness ==
  /\ rendered # NotRendered
  /\ shown.type = Some("error")
  /\ shown.query = Some("SELECT * FROM t")
  /\ shown.data = Some(SampleRows)
  /\ rendered.text = Some("text")

QueryQualifies(q) ==
  /\ q # Undefined
  /\ q[1] # ""
  /\ Includes(ToLowerCase(q[1]), "select")
  /\ \A lit \in {"'greeting'", "'ai_info'", "'help'", "'out_of_scope'"} :
       ~Includes(ToLowerCase(q[1]), lit)

\* C5: on the default path the SQL block is shown (with the query as its
\* text) exactly when the query is non-empty, contains select and none of
\* the quoted routing literals, all matched case-insensitively.
C5_SqlBlockIffQueryQualifies ==
  (rendered # NotRendered /\ ~HasSpecialTag(shown)) =>
    /\ (rendered.sqlBlock # Undefined) <=> QueryQualifies(shown.query)
    /\ rendered.sqlBlock # Undefined => rendered.sqlBlock = shown.query

\* A default-path turn whose query has select and 'GREETING' in upper case
\* has been rendered without its SQL block.
C5_Witness ==
  /\ rendered # NotRendered
  /\ rendered.path = "data"
  /\ shown.query = Some("select 'GREETING' from t")
  /\ rendered.sqlBlock = Undefined

\* C6: a call of handleSubmit with an empty or whitespace-only input sends
\* no request and leaves the turn log, the input text and the loading flag
\* as they were.
C6_BlankSubmitChangesNothing ==
  [][ (attempted' /\ Trim(input) = "") =>
        /\ messages' = messages
        /\ input' = input
        /\ isLoading' = isLoading
        /\ inflight' = inflight
        /\ subs' = subs
        /\ appended' = appended ]_vars

\* handleSubmit has just run on a whitespace-only input, with turns in the log.
C6_Witness ==
  /\ attempted
  /\ input # ""
  /\ Trim(input) = ""
  /\ Len(messages) > 0
  /\ ~isLoading

TurnContributes(m) ==
  IF m.role = "user"
  THEN m.content # ""
  ELSE Truthy(m.summary) \/ Truthy(m.explanation) \/ m.content # ""

ClaimedEntry(m) ==
  IF m.role = "user"
  THEN [user |-> Some(m.content), assistant |-> Undefined]
  ELSE [user |-> Undefined,
        assistant |-> IF Truthy(m.summary) THEN m.summary
                      ELSE IF Truthy(m.explanation) THEN m.explanation
                      ELSE Some(m.content)]

HistoryAsClaimed(log, h) ==
  LET n == Len(log)
      lastTen == {i \in 1..n : i > n - 10}
      kept == {i \in lastTen : TurnContributes(log[i])}
      Rank(i) == Cardinality({j \in kept : j <= i})
  IN  /\ Len(h) = Cardinality(kept)
      /\ Len(h) <= 10
      /\ \A i \in kept : h[Rank(i)] = ClaimedEntry(log[i])

\* C7: the history sent with a message is made of the last 10 turns of the
\* log before the message, in log order, each mapped to {user} or
\* {assistant: summary, else explanation, else content}, without the turns
\* that give neither.
C7_HistoryIsLastTenTurns ==
  [][ subs' = subs + 1 =>
        \E f \in inflight' :
          /\ f.sub = subs'
          /\ f.at = "send"
          /\ f.message = messages'[Len(messages')].content
          /\ HistoryAsClaimed(messages, f.history) ]_vars

\* A request is out whose history was cut to the last ten of twelve turns,
\* lost a turn that gave neither field, and holds an assistant entry of each
\* kind: a summary, an explanation, the content of an error turn.
C7_Witness ==
  \E f \in inflight :
    /\ f.at = "send"
    /\ Len(messages) >= 13
    /\ messages[Len(messages)].sub = f.sub
    /\ Len(f.history) < 10
    /\ \A text \in {"s1", "hello", ErrorText} :
         \E k \in DOMAIN f.history : f.history[k].assistant = Some(text)

InFlight(r) == req[r].pc \in {"getConnection", "execute"}

\* C8: a request obtains at most one pooled connection and releases what it
\* obtained exactly once, whether execute succeeded or threw; the pool's
\* checked-out connections are exactly those of the requests executing, and
\* none is checked out once no request is in flight.
C8_OneConnectionReleasedOnce ==
  /\ \A r \in RequestIds :
       /\ acquired[r] <= 1
       /\ released[r] <= acquired[r]
       /\ req[r].pc = "done" => released[r] = acquired[r]
       /\ req[r].pc = "execute" <=> acquired[r] - released[r] = 1
  /\ checkedOut = { req[r].conn : r \in {q \in RequestIds : req[q].pc = "execute"} }
  /\ (\A r \in RequestIds : ~InFlight(r)) => checkedOut = {}

\* All requests are done, one after execute threw and one after it gave rows,
\* each having released its connection.
C8_Witness ==
  /\ \A r \in RequestIds : req[r].pc = "done"
  /\ \E r1, r2 \in RequestIds :
       /\ executed[r1] = "error" /\ released[r1] = 1
       /\ executed[r2] = "rows" /\ released[r2] = 1
  /\ checkedOut = {}

\* C9: a request without sql is answered 400 and never reaches executeQuery.
C9_MissingSqlIs400WithoutQuery ==
  \A r \in RequestIds :
    (req[r].pc # "none" /\ req[r].body.sql = Undefined) =>
      /\ req[r].pc = "done"
      /\ req[r].response.status = 400
      /\ acquired[r] = 0
      /\ executed[r] = "none"

\* A request without sql has been answered while another one is executing.
C9_Witness ==
  \E r1, r2 \in RequestIds :
    /\ req[r1].pc = "done"
    /\ req[r1].body.sql = Undefined
    /\ req[r1].response.status = 400
    /\ req[r2].pc = "execute"

\* C10: for a request with sql, the answer is 500 exactly when executing the
\* query failed, a 500 always carries the generic body, and a query that
\* executed gets the result body with rowCount the number of rows of data.
C10_Status500IffExecutionFailed ==
  \A r \in RequestIds :
    (req[r].pc = "done" /\ Truthy(req[r].body.sql)) =>
      /\ req[r].response.status = 500
           <=> executed[r] \in {"error", "noconnection"}
      /\ req[r].response.status = 500 => req[r].response = GenericFailure
      /\ executed[r] \in {"rows", "header"} =>
           /\ req[r].response.status = 200
           /\ req[r].response.body.sql = req[r].body.sql
           /\ req[r].response.body.rowCount = Len(req[r].response.body.data)

NameEndsInCsv(n) == Len(n) >= 4 /\ SubSeq(n, Len(n) - 3, Len(n)) = ".csv"

\* C11: whatever files are selected (browsed or dropped), cleared and
\* submitted, uploadDataset is only ever called with a file whose name ends
\* in .csv; selecting a file with any other name sets the error 'Please
\* upload a CSV file' and issues no network call.
C11_OnlyCsvNamesAreUploaded ==
  /\ [](\A n \in uploadCalls : NameEndsInCsv(n))
  /\ [][ \A n \in FileNames :
           ((handleChange(n) \/ handleDrop(n)) /\ ~NameEndsInCsv(n)) =>
             /\ error' = Some("Please upload a CSV file")
             /\ file' = file
             /\ uploads' = uploads
             /\ uploadCalls' = uploadCalls ]_vars

\* A file has been uploaded, and a later selection has been turned down
\* while a csv file is still selected.
C11_Witness ==
  /\ uploadCalls # {}
  /\ file # Undefined
  /\ error = Some("Please upload a CSV file")

\* C12: a successful upload makes the active dataset the body the upload
\* returned and sets the upload-success flag; from then on the active
\* dataset equals the body of the latest successful upload.
C12_SuccessfulUploadReplacesDataset ==
  /\ [][ \A u \in uploads : \A o \in UploadOutcomes :
           (o.kind = "ok" /\ UploadSettles(u, o)) =>
             (dataset' = Some(o.data) /\ uploadSuccess') ]_vars
  /\ [](lastUploaded # Undefined => dataset = lastUploaded)

\* loadDataset found a dataset, an upload then replaced it by another one,
\* and a later upload has failed.
C12_Witness ==
  /\ "Error getting dataset:" \notin consoleErrors
  /\ "Error uploading dataset:" \in consoleErrors
  /\ lastUploaded # Undefined
  /\ dataset = lastUploaded
  /\ dataset[1].row_count = 5
  /\ uploads = {}

Supplied(o) == o # Undefined /\ o[1] # ""

\* The text the banner is to show for a failed upload.
ExpectedUploadError(o) ==
  IF Supplied(o.detail) THEN o.detail
  ELSE IF Supplied(o.message) THEN o.message
  ELSE Some("Failed to upload dataset")

\* C13 as stated: whenever an upload fails, the banner shows detail, else
\* the error's message, else 'Failed to upload dataset'; the active dataset
\* and the upload-success flag are unchanged, no upload is started again,
\* and the uploading flag is false.
C13_FailedUploadShowsErrorAlways ==
  [][ \A u \in uploads : \A o \in UploadOutcomes :
        (o.kind = "error" /\ UploadSettles(u, o)) =>
          /\ error' = ExpectedUploadError(o)
          /\ dataset' = dataset
          /\ uploadSuccess' = uploadSuccess
          /\ uploadCalls' = uploadCalls
          /\ uploads' = uploads \ {u}
          /\ isUploading' = FALSE ]_vars

\* C13 amended: when an upload fails, the active dataset and the
\* upload-success flag are unchanged and no upload is started again; if the
\* DatasetUpload that started it is still on the screen, its banner shows
\* detail, else the error's message, else 'Failed to upload dataset', and
\* its uploading flag is false; if it was closed meanwhile, the banner and
\* the uploading flag of whatever DatasetUpload is open are left alone.
C13_FailedUploadShowsErrorWhileOpen ==
  [][ \A u \in uploads : \A o \in UploadOutcomes :
        (o.kind = "error" /\ UploadSettles(u, o)) =>
          /\ dataset' = dataset
          /\ uploadSuccess' = uploadSuccess
          /\ uploadCalls' = uploadCalls
          /\ uploads' = uploads \ {u}
          /\ IF u.mounted
             THEN error' = ExpectedUploadError(o) /\ isUploading' = FALSE
             ELSE error' = error /\ isUploading' = isUploading ]_vars

\* After a successful upload a second upload, started from the same open
\* DatasetUpload, has failed with a detail message.
C13_Witness ==
  /\ showUpload
  /\ uploads = {}
  /\ uploadsMade = 2
  /\ lastUploaded # Undefined
  /\ dataset = lastUploaded
  /\ ~uploadSuccess
  /\ ~isUploading
  /\ error = Some("Only CSV files are supported")

\* C14: a 404 answer to the initial fetch leaves the active dataset null
\* and reports no error, and after every outcome of the fetch the App's
\* loading flag is false.
C14_NotFoundIsSilentAndLoadingEnds ==
  [][ \A o \in LoadOutcomes :
        loadDataset(o) =>
          /\ appIsLoading' = FALSE
          /\ o.status = Some(NotFound) =>
               (dataset' = Undefined /\ consoleErrors' = consoleErrors) ]_vars

\* C15: a rendered no_dataset turn is the warning panel with the upload
\* button and no table, and activating that button leaves the upload modal
\* open.
C15_NoDatasetPanelOpensUpload ==
  /\ []((rendered # NotRendered /\ shown.type = Some("no_dataset")) =>
          /\ rendered.path = "no_dataset"
          /\ rendered.heading = Some("No Dataset Available")
          /\ rendered.uploadButton
          /\ rendered.table = Undefined)
  /\ [][ UploadCallToAction => showUpload' ]_vars

\* The button of a no_dataset turn that came with rows has been activated.
C15_Witness ==
  /\ rendered # NotRendered
  /\ shown.type = Some("no_dataset")
  /\ shown.data = Some(SampleRows)
  /\ rendered.uploadButton
  /\ showUpload

NameHas(columnName, words) ==
  \E w \in words : Includes(ToLowerCase(columnName), w)

\* Text ending in a point and two digits, after at least one digit.
HasTwoDecimals(text) ==
  /\ Len(text) >= 4
  /\ IsDigit(SubSeq(text, Len(text), Len(text)))
  /\ IsDigit(SubSeq(text, Len(text) - 1, Len(text) - 1))
  /\ SubSeq(text, Len(text) - 2, Len(text) - 2) = "."
  /\ IsDigit(SubSeq(text, Len(text) - 3, Len(text) - 3))

IsCurrencyString(text) ==
  HasTwoDecimals(text) /\ (StartsWith(text, "$") \/ StartsWith(text, "-$"))

IsNumberString(text) == HasTwoDecimals(text) /\ ~Includes(text, "$")

\* What toLocaleString gives for new Date(value), 'Invalid Date' included.
IsDateTimeString(text) ==
  StartsWith(text, "date-time of instant ") \/ text = "Invalid Date"

RawText(value) ==
  CASE value.t = "string" -> value.s
    [] value.t = "boolean" -> IF value.b THEN "true" ELSE "false"

\* C16: formatValue picks the format in this order, names matched in any
\* letter case: null or undefined gives 'N/A' in every column; else a name
\* with date or time gives the date-time text of the value; else a name with
\* amount, price, revenue or total gives a currency string for a number and
\* the value's own text otherwise; else a number gives a string with two
\* decimals; else the value's own text.  1234.5 is '$1,234.50' in
\* total_revenue and '1,234.50' in score.
C16_FormatPrecedence ==
  formatted.done =>
    LET value == cell.value
        name == cell.columnName
        out == formatted.text
    IN  /\ IF value.t \in {"null", "undefined"} THEN out = "N/A"
           ELSE IF NameHas(name, {"date", "time"}) THEN IsDateTimeString(out)
           ELSE IF NameHas(name, {"amount", "price", "revenue", "total"})
           THEN IF value.t = "number" THEN IsCurrencyString(out)
                ELSE out = RawText(value)
           ELSE IF value.t = "number" THEN IsNumberString(out)
           ELSE out = RawText(value)
        /\ (value = Num(1234500) /\ name = "total_revenue") =>
             out = "$1,234.50"
        /\ (value = Num(1234500) /\ name = "score") => out = "1,234.50"

\* A number in a column whose name has both amount and time has been
\* formatted as a date-time.
C16_Witness ==
  /\ formatted.done
  /\ cell = [value |-> Num(86400000), columnName |-> "amount_time"]
  /\ formatted.text = "date-time of instant 86400"

\* C17: a data-answer turn whose data is present and empty is rendered with
\* the 'No data found.' notice and without a table of rows.
C17_EmptyDataShowsNotice ==
  (rendered # NotRendered /\ rendered.path = "data" /\ shown.data = Some(<<>>))
    => "No data found." \in ShownTexts(rendered)

RECURSIVE LinesOf(_)
LinesOf(blocks) ==
  IF blocks = <<>> THEN <<>>
  ELSE blocks[1].lines \o LinesOf(SubSeq(blocks, 2, Len(blocks)))

\* The first character of the line that is not white space is an asterisk.
IsBullet(line) ==
  \E i \in 1..Len(line) :
    /\ SubSeq(line, i, i) = "*"
    /\ \A j \in 1..(i - 1) : IsSpace(SubSeq(line, j, j))

\* C18: of a text that is not empty, processMessageContent makes blocks
\* whose lines, taken in output order and joined by newlines, are the text
\* again; each block is a list holding only lines that start (after any
\* leading white space) with an asterisk or a paragraph holding only other
\* lines, no block is empty and no two neighbours are of the same kind, so
\* every block is a maximal run.
C18_BlocksAreMaximalRunsInOrder ==
  (processed.done /\ Truthy(content)) =>
    /\ processed.result # Undefined
    /\ LET blocks == processed.result[1]
       IN  /\ Join(LinesOf(blocks)) = content[1]
           /\ \A i \in 1..Len(blocks) :
                /\ Len(blocks[i].lines) > 0
                /\ blocks[i].kind \in {"ul", "p"}
                /\ \A k \in 1..Len(blocks[i].lines) :
                     IsBullet(blocks[i].lines[k]) <=> blocks[i].kind = "ul"
           /\ \A i \in 1..(Len(blocks) - 1) :
                blocks[i].kind # blocks[i + 1].kind

\* A paragraph line followed by a bare and an indented bullet has become a
\* paragraph and one list of two items.
C18_Witness ==
  /\ processed.done
  /\ content = Some("x\n* a\n  * b")
  /\ Len(processed.result[1]) = 2
  /\ processed.result[1][2].kind = "ul"
  /\ processed.result[1][2].shows = <<"a", "b">>

\* C19 as stated: whenever the panel's row set changes, X becomes the first
\* categorical and Y the first numeric column of the new row set.
C19_AxesReselectedOnRowSetChange ==
  [][ (panelOpen' /\ lastData' # lastData) =>
        /\ Len(categoricalColumns(lastData')) > 0 =>
             selectedXAxis' = categoricalColumns(lastData')[1]
        /\ Len(numericColumns(lastData')) > 0 =>
             selectedYAxis' = numericColumns(lastData')[1] ]_vars

\* C19 amended: when the panel opens or its row set changes, an axis with
\* no selection becomes the first categorical (X) or first numeric (Y)
\* column of the new row set, if there is one, and an axis that has a
\* selection keeps it.
C19_UnsetAxesInitialisedOnRowSetChange ==
  [][ (panelOpen' /\ (lastData' # lastData \/ ~panelOpen)) =>
        /\ selectedXAxis' =
             (IF selectedXAxis = "" /\ Len(categoricalColumns(lastData')) > 0
              THEN categoricalColumns(lastData')[1] ELSE selectedXAxis)
        /\ selectedYAxis' =
             (IF selectedYAxis = "" /\ Len(numericColumns(lastData')) > 0
              THEN numericColumns(lastData')[1] ELSE selectedYAxis) ]_vars

\* An open panel showing rows without a categorical column was handed the
\* sales rows: X was unset and is now region, Y keeps the old column a.
C19_Witness ==
  /\ panelOpen
  /\ lastData = SalesRows
  /\ selectedXAxis = "region"
  /\ selectedYAxis = "a"

\* C20: the Y-axis selector is hidden exactly for the chart kinds pie and
\* donut, and shown for bar, line, area, scatter, radar and radialBar.
C20_YSelectorHiddenForPieAndDonut ==
  panelOpen => (YSelectorShown <=> chartType \notin {"pie", "donut"})

\* What Number() makes of the first-row values in use: every number, null
\* (0), a boolean (0 or 1) and the texts "12.5" and "" (0) convert; the
\* texts "ann", "north", "south" and "7a" give NaN.
ConvertsToNumber(val) ==
  \/ val.t \in {"number", "null", "boolean"}
  \/ val.t = "string" /\ val.s \in {"12.5", ""}

InList(col, list) == \E i \in 1..Len(list) : list[i] = col

\* C21 amended: a column is categorical exactly when its first-row value is
\* a string or a boolean, and numeric exactly when that value is a number
\* or converts to one; both lists keep the column order of the first row.
C21_ColumnsClassifiedByFirstRow ==
  panelOpen =>
    /\ \A i \in 1..Len(lastData[1]) :
         LET c == lastData[1][i]
         IN  /\ InList(c.col, categoricalColumns(lastData))
                  <=> c.val.t \in {"string", "boolean"}
             /\ InList(c.col, numericColumns(lastData))
                  <=> (c.val.t = "number" \/ ConvertsToNumber(c.val))
    /\ \A list \in {categoricalColumns(lastData), numericColumns(lastData)} :
         \A i, j \in 1..Len(list) :
           i < j => \E a, b \in 1..Len(lastData[1]) :
                      a < b /\ lastData[1][a].col = list[i]
                            /\ lastData[1][b].col = list[j]

\* C21 as stated: the classification above, and no column is in both the
\* numeric and the categorical list.
C21_NumericAndCategoricalDisjoint ==
  panelOpen =>
    /\ C21_ColumnsClassifiedByFirstRow
    /\ \A c \in ColumnNamesOf({lastData}) :
         ~(InList(c, categoricalColumns(lastData))
             /\ InList(c, numericColumns(lastData)))

\* The panel shows the mixed rows: the boolean column and the two columns
\* of numeric text are in both lists, the null column is numeric only.
C21_Witness ==
  /\ panelOpen
  /\ lastData = MixedRows
  /\ numericColumns(lastData) = <<"year", "active", "amount", "note", "blank">>
  /\ categoricalColumns(lastData) = <<"name", "active", "amount", "code", "blank">>

\* A step of the microphone button: it called start() or abort().
MicClicked ==
  startCalls' # startCalls \/ (lastCall' = "abort" /\ lastCall # "abort")

\* C22: voice sessions never overlap: start() is only called when no
\* recognition session is active (the session of the recognition object
\* lasts until its end event), a mic click while a session is capturing
\* aborts that session, and the listening indicator is on whenever a
\* session is capturing.
C22_VoiceSessionsNeverOverlap ==
  /\ [](lastCall # "startRejected")
  /\ [](session = "listening" => isListening)
  /\ [][ (MicClicked /\ session = "listening") =>
          (lastCall' = "abort" /\ session' = "ending") ]_vars

\* C28: the schema and the preview DatabaseConnection displays always
\* belong to the currently selected table, whatever the order in which
\* the answers of the table selections arrive or fail.
C28_DisplayedDetailsBelongToSelectedTable ==
  /\ SchemaShown =>
       \A i \in 1..Len(tableSchema) : tableSchema[i].table = selectedTable[1]
  /\ PreviewShown =>
       \A i \in 1..Len(tablePreview) : tablePreview[i].table = selectedTable[1]

\* C23: the turn log is append-only between resets: every change to it
\* adds exactly one turn at the end and leaves the turns it had as they
\* were, or (back-to-home, which also clears the input) empties it.
C23_LogChangesAreAppendsOrReset ==
  [][ messages' # messages =>
        \/ /\ Len(messages') = Len(messages) + 1
           /\ SubSeq(messages', 1, Len(messages)) = messages
        \/ messages' = <<>> /\ input' = "" /\ inflight' = inflight ]_vars

\* The log was emptied after the first submission had got its answer and
\* has grown again by the two turns of the second.
C23_Witness ==
  /\ Len(messages) = 2
  /\ messages[1].role = "user" /\ messages[1].sub = 2
  /\ messages[2].role = "assistant" /\ messages[2].sub = 2
  /\ appended[1] = [user |-> 1, assistant |-> 1]

\* The request of submission f.sub is answered in this step.
Answered(f) ==
  /\ f \in inflight /\ f.at = "send"
  /\ \A g \in inflight' : ~(g.sub = f.sub /\ g.at = "send")

\* Every answered request appends the assistant turn of its submission.
AnswersAreAppended ==
  [][ \A f \in inflight : Answered(f) =>
        /\ Len(messages') = Len(messages) + 1
        /\ SubSeq(messages', 1, Len(messages)) = messages
        /\ messages'[Len(messages')].role = "assistant"
        /\ messages'[Len(messages')].sub = f.sub ]_vars

\* C24 as stated: requests are never cancelled, and further submissions
\* can be made while a request is outstanding (so that two can be
\* outstanding and be answered out of submission order).
C24_AnswersAppendedAndSubmissionsOverlap ==
  /\ AnswersAreAppended
  /\ []((inflight # {} /\ subs < MaxSubmits) => ENABLED Submit)

\* C24 amended: requests are never cancelled: every request that was sent
\* appends its assistant turn when it is answered, also when the log was
\* reset meanwhile; at most one request is outstanding at a time, so the
\* assistant turns of the log are in submission order.
C24_AnswersAppendedOneAtATime ==
  /\ AnswersAreAppended
  /\ [](Cardinality(inflight) <= 1)
  /\ [](\A i, j \in DOMAIN messages : i < j => messages[i].sub <= messages[j].sub)

\* The log was reset while the request was outstanding: its answer is the
\* only turn of the log.
C24_Witness ==
  /\ Len(messages) = 1
  /\ messages[1].role = "assistant"
  /\ messages[1].summary = Some("s1")
  /\ inflight = {}

\* C25: from the acceptance of a submission until handleSubmit has run to
\* its end the loading flag is true and it is false otherwise, on success
\* and on failure; while it is true the text field and the send button
\* are disabled: the input is not edited and no submission is accepted.
C25_LoadingWhileOutstanding ==
  /\ [](isLoading <=> inflight # {})
  /\ [][ isLoading => (input' = input /\ subs' = subs) ]_vars
  /\ [][ subs' # subs => (inflight = {} /\ isLoading') ]_vars

\* A failed and a successful submission have run to their end, the flag
\* is false; and a third submission is outstanding, the flag is true.
C25_Witness ==
  /\ isLoading
  /\ subs = 3
  /\ \E f \in inflight : f.sub = 3 /\ f.at = "send"
  /\ \E i, j \in DOMAIN messages :
       messages[i].content = ErrorText /\ messages[j].summary = Some("s1")

Count(log, role) == Cardinality({i \in DOMAIN log : log[i].role = role})

\* C26: the turn log is empty or starts with a user turn, in every prefix
\* of it the assistant turns are no more than the user turns, and each
\* assistant turn comes after the user turn of its submission.
C26_LogIsWellFormed ==
  /\ messages = <<>> \/ messages[1].role = "user"
  /\ \A k \in DOMAIN messages :
       Count(SubSeq(messages, 1, k), "assistant")
         <= Count(SubSeq(messages, 1, k), "user")
  /\ \A i \in DOMAIN messages :
       messages[i].role = "assistant" =>
         \E j \in 1..(i - 1) :
           messages[j].role = "user" /\ messages[j].sub = messages[i].sub

\* C27: the answer of the initial dataset fetch never overwrites a dataset
\* installed by an upload: while the fetch is pending the upload modal is
\* closed and no upload has been started, so the fetch settles before the
\* first upload.
C27_InitialFetchSettlesBeforeAnyUpload ==
  /\ [](loadPending => (~showUpload /\ uploadsMade = 0 /\ lastUploaded = Undefined))
  /\ [][ (loadPending /\ ~loadPending') => lastUploaded = Undefined ]_vars
  /\ [](lastUploaded # Undefined => dataset = lastUploaded)

\* The initial fetch returned a dataset without an error, and a later
\* upload has installed another one.
C27_Witness ==
  /\ ~loadPending
  /\ consoleErrors = {}
  /\ lastUploaded # Undefined
  /\ dataset = lastUploaded
  /\ uploads = {}

\* C29: whenever the upload modal is opened, the upload-success flag is
\* false (the banner is only shown for an upload that succeeded during the
\* current opening), also after the modal closed by itself 2 seconds
\* after a successful upload.
C29_SuccessFlagFalseWhenModalOpens ==
  [][ (~showUpload /\ showUpload') => ~uploadSuccess' ]_vars

\* C30: a rejected (non-.csv) selection, browsed or dropped, changes only
\* the error message: the selected file, the upload-success flag and
\* everything else stay as they were; and a submit uploads the selected
\* file, which is the one accepted last.
C30_RejectedSelectionChangesOnlyError ==
  /\ [][ \A name \in FileNames :
          (~NameEndsInCsv(name) /\ (handleChange(name) \/ handleDrop(name))) =>
            /\ error' = Some("Please upload a CSV file")
            /\ UNCHANGED <<dataset, appIsLoading, showUpload, uploadSuccess,
                           closeTimer, loadPending, consoleErrors, file,
                           isUploading, uploads, uploadCalls, uploadsMade,
                           lastUploaded>> ]_vars
  /\ [][ uploadsMade' # uploadsMade =>
          /\ file # Undefined
          /\ uploads' = uploads \cup
               {[id |-> uploadsMade', file |-> file[1], mounted |-> TRUE]} ]_vars

\* After a successful upload of a.csv a selection was turned down: the
\* error is shown, a.csv is still selected and the success flag still set.
C30_Witness ==
  /\ showUpload
  /\ error = Some("Please upload a CSV file")
  /\ file = Some("a.csv")
  /\ uploadSuccess
  /\ lastUploaded # Undefined
====
